---------------------------- MODULE Spec2Model ----------------------------
(***************************************************************************)
(* Streaming acquisition pipeline of Picoscope_Data_Acquisition_Tool.py:   *)
(* the main process (main_loop, the streaming callback it drives through   *)
(* get_data, and the cleanup of the __main__ block), the save process      *)
(* (save_data_worker), the SIGINT handler, and the bounded                 *)
(* multiprocessing.Queue between them.                                     *)
(*                                                                         *)
(* Python indices are 0-based; TLA+ sequences are 1-based.  Every slice    *)
(* operator below takes Python (0-based, half-open) indices.               *)
(***************************************************************************)
EXTENDS Integers, Sequences, FiniteSets, TLC

(***************************************************************************)
(* Bounds.  BUFFER_SIZE (100000000 in the source) and maxsize (20 in the   *)
(* source) are scaled down; every quantity the code derives from them      *)
(* (transfer_size) is derived here in the same way.                        *)
(***************************************************************************)
BUFFER_SIZE == 20

maxsize == 2

MaxCallbacks == 3

MaxWriteErrors == 1

MaxCapacity == 10

\* selected_channels as returned by select_channels(): a list, in order.
selected_channels == <<"A", "B">>

Channels == {selected_channels[i] : i \in 1..Len(selected_channels)}

\* The k-th sample (k >= 1) the device produces on a channel: int16 values,
\* distinct per channel and distinct from the zero fill of np.zeros.
HwSample(ch, k) == IF ch = "A" THEN k ELSE 0 - k

\* noOfSamples values the driver passes to the callback.
CallbackSizes == {1, 2, BUFFER_SIZE - 2}

\* np.zeros(BUFFER_SIZE, dtype=np.int16)
Zeros == [i \in 1..BUFFER_SIZE |-> 0]

\* transfer_size = BUFFER_SIZE // 10
transfer_size == BUFFER_SIZE \div 10

Min(a, b) == IF a <= b THEN a ELSE b

Max(a, b) == IF a >= b THEN a ELSE b

\* The sentinel put on the queue by the cleanup, and the value of an unset local.
None == [kind |-> "None"]

\* A queue item carrying a dict {channel: array}.
Item(d) == [kind |-> "data", data |-> d]

(***************************************************************************)
(* numpy slicing.  a[start:stop] clips stop (and start) to len(a).         *)
(***************************************************************************)
PySliceLen(a, start, stop) == Max(0, Min(stop, Len(a)) - Min(start, Len(a)))

PySlice(a, start, stop) ==
    [i \in 1..PySliceLen(a, start, stop) |-> a[Min(start, Len(a)) + i]]

\* a[start:stop] = b succeeds when b has the length of the clipped target, or
\* when b has length 1 (numpy broadcasts it, also onto an empty target);
\* otherwise numpy raises ValueError and changes nothing.
PySetSliceOK(a, start, stop, b) ==
    \/ Len(b) = PySliceLen(a, start, stop)
    \/ Len(b) = 1

PySetSlice(a, start, stop, b) ==
    [i \in 1..Len(a) |->
        IF i > Min(start, Len(a)) /\ i <= Min(start, Len(a)) + PySliceLen(a, start, stop)
        THEN (IF Len(b) = 1 THEN b[1] ELSE b[i - Min(start, Len(a))])
        ELSE a[i]]

VARIABLES
    exit_event,      \* multiprocessing.Event: the cancellation flag
    pcMain,          \* position of the main process
    pcWorker,        \* position of the save process
    bufferMax,       \* per channel: the buffer the driver fills
    bufferComplete,  \* per channel: the accumulation buffer
    nextSample,      \* write cursor into bufferComplete
    data_to_save,    \* main_loop's local: the snapshot being handed off
    data_queue,      \* multiprocessing.Queue(maxsize): items put and not yet got
    channel_data,    \* worker's local: the item being saved
    chan_i,          \* worker: position in channel_data.items()
    data_counter,    \* worker's batch index
    saved,           \* np.save calls that completed, in order: the disk
    write_errors,    \* np.save/os.makedirs calls that raised so far
    queue_check,     \* check_queue_size: its arguments' size and capacity, what
                     \* it logged and what it returned
    device,          \* "unopened", "open", "streaming", "stopped", "closed"
    status,          \* the global dict status: driver call name -> returned PICO status
    hw,              \* driver: [next |-> write position, produced |-> samples produced,
                     \*          callbacks |-> callbacks made,
                     \*          overflow |-> overflow argument of the last callback
                     \*                       of the poll in progress]
    hist             \* history: [open_calls |-> calls of ps5000aOpenUnit,
                     \*           power_changes |-> calls of ps5000aChangePowerSource,
                     \*           enqueued |-> snapshots main_loop put, in order,
                     \*           copied |-> per channel, samples the callbacks stored,
                     \*           end |-> how main_loop ended,
                     \*           interrupted |-> signal_handler ran,
                     \*           at_cancel |-> the queue when exit_event was first set]

vars == <<exit_event, pcMain, pcWorker, bufferMax, bufferComplete, nextSample,
          data_to_save, data_queue, channel_data, chan_i, data_counter, saved,
          write_errors, queue_check, device, status, hw, hist>>

mainVars ==
    <<pcMain, bufferMax, bufferComplete, nextSample, data_to_save, device, status, hw>>

workerVars == <<pcWorker, channel_data, chan_i, data_counter, saved, write_errors, queue_check>>

\* no call of check_queue_size yet
NoCheck == [current_size |-> 0, max_size |-> maxsize, level |-> "unchecked",
            fill_ratio |-> None]

(***************************************************************************)
(* PICO_STATUS values the driver calls return: PICO_OK, PICO_NOT_FOUND,    *)
(* PICO_NOT_RESPONDING, PICO_POWER_SUPPLY_NOT_CONNECTED (282) and          *)
(* PICO_USB3_0_DEVICE_NON_USB3_0_PORT (286).                               *)
(***************************************************************************)
PICO_OK == 0

PicoStatuses == {PICO_OK, 3, 7, 282, 286}

\* line 144: if power_status in [286, 282]
PowerStatuses == {286, 282}

\* status[key] = value
StatusSet(st, key, value) ==
    [k \in DOMAIN st \cup {key} |-> IF k = key THEN value ELSE st[k]]

\* the channels setup_channels configures (262), in order
AllChannels == <<"A", "B", "C", "D">>

\* the keys of status after a setup in which every call returned PICO_OK
SetupKeys ==
    {"openunit", "runStreaming"}
        \cup {"setCh" \o AllChannels[i] : i \in 1..Len(AllChannels)}
        \cup {"setDataBuffers" \o selected_channels[i] : i \in 1..Len(selected_channels)}

(***************************************************************************)
(* State at line 805: device opened and streaming, buffers allocated       *)
(* (set_buffers), queue created empty, save process started, main about to *)
(* call main_loop, whose first statements (631-638) initialise             *)
(* bufferComplete and nextSample.                                          *)
(***************************************************************************)
Init ==
    /\ exit_event = FALSE
    /\ pcMain = "while"
    /\ pcWorker = "while"
    /\ bufferMax = [ch \in Channels |-> Zeros]
    /\ bufferComplete = [ch \in Channels |-> Zeros]
    /\ nextSample = 0
    /\ data_to_save = None
    /\ data_queue = <<>>
    /\ channel_data = None
    /\ chan_i = 0
    /\ data_counter = 0
    /\ saved = <<>>
    /\ write_errors = 0
    /\ queue_check = NoCheck
    /\ device = "streaming"
    /\ status = [k \in SetupKeys |-> PICO_OK]
    /\ hw = [next |-> 0, produced |-> 0, callbacks |-> 0, overflow |-> 0]
    /\ hist = [open_calls |-> 1,
               power_changes |-> 0,
               enqueued |-> <<>>,
               copied |-> [ch \in Channels |-> <<>>],
               end |-> "none",
               interrupted |-> FALSE,
               at_cancel |-> <<>>]

(***************************************************************************)
(* signal_handler (411-423).  SIGINT may arrive at any bytecode boundary   *)
(* of the main process, also while it is blocked inside Queue.put (the     *)
(* semaphore wait is resumed after the handler returns).  A signal that    *)
(* arrives when the flag is already set changes nothing but the log.       *)
(***************************************************************************)
\* Faulty variant: setting a flag that is already set clears it
EventAfterToggle == ~exit_event

\* Event.set() (422, 815): the flag is true afterwards, whatever it was
EventAfterSet == TRUE

FlagSetHist(h) ==
    IF exit_event THEN h ELSE [h EXCEPT !.at_cancel = data_queue]

signal_handler ==
    /\ pcMain # "done"
    /\ ~exit_event
    /\ exit_event' = EventAfterSet
    /\ hist' = [FlagSetHist(hist) EXCEPT !.interrupted = TRUE]
    /\ UNCHANGED <<mainVars, workerVars, data_queue>>

(***************************************************************************)
(* multiprocessing.Queue(maxsize).  put() without timeout acquires the     *)
(* bounded semaphore: it waits while maxsize items are outstanding.        *)
(* get(timeout) raises queue.Empty when nothing arrives in time.           *)
(***************************************************************************)
\* Faulty variant: put never waits
QueueNeverFull(q) == FALSE

\* Faulty variant: put lets one item too many in
QueueFullOffByOne(q) == Len(q) > maxsize

QueueFull(q) == Len(q) >= maxsize

QueueAfterPut(q, item) == Append(q, item)

\* Faulty variant: the queued Snapshots are views of the accumulation buffer
QueueAliasesBuffer(q, bc) ==
    [i \in 1..Len(q) |->
        IF q[i].kind = "data"
        THEN [kind |-> "data",
              data |-> [ch \in DOMAIN q[i].data |->
                            [k \in 1..Len(q[i].data[ch]) |-> bc[ch][k]]]]
        ELSE q[i]]

\* The items put and not yet got, after main_loop has rebound bufferComplete
\* to fresh arrays (653) or a callback has stored into it (467): a queued
\* Snapshot holds the arrays made by .copy() (647), which nothing writes to.
QueueAfterBufferWrite(q, bc) == q

qsize(q) == Len(q)

(***************************************************************************)
(* main_loop (641-667)                                                     *)
(***************************************************************************)
\* line 641: while not exit_event.is_set()
MainWhile ==
    /\ pcMain = "while"
    /\ IF exit_event
       THEN /\ pcMain' = "finally"
            /\ hist' = [hist EXCEPT !.end = "cancel"]
       ELSE /\ pcMain' = "get_data"
            /\ UNCHANGED hist
    /\ UNCHANGED <<exit_event, bufferMax, bufferComplete, nextSample, data_to_save,
                   device, status, hw, workerVars, data_queue>>

\* The driver's part of ps5000aGetStreamingLatestValues (487): it has written
\* noOfSamples fresh samples at startIndex of every channel's bufferMax.
StartIndex(noOfSamples) ==
    IF hw.next + noOfSamples <= BUFFER_SIZE THEN hw.next ELSE 0

DriverFill(noOfSamples) ==
    [ch \in Channels |->
        [i \in 1..BUFFER_SIZE |->
            IF i > StartIndex(noOfSamples) /\ i <= StartIndex(noOfSamples) + noOfSamples
            THEN HwSample(ch, hw.produced + i - StartIndex(noOfSamples))
            ELSE bufferMax[ch][i]]]

\* lines 466-467 raise (ValueError from the slice assignment) on the first
\* channel already, before anything is stored; ctypes ignores an exception
\* raised in a callback.
CallbackRaises(bm, noOfSamples, startIndex) ==
    ~PySetSliceOK(bufferComplete[selected_channels[1]], nextSample,
                  nextSample + noOfSamples,
                  PySlice(bm[selected_channels[1]], startIndex, startIndex + noOfSamples))

\* Faulty variant: the callback does not look at the flag
CallbackNeverSkips == FALSE

\* line 462: the callback returns at once when the flag is set
CallbackSkips == exit_event

\* line 467, for every channel
CallbackCopy(bm, noOfSamples, startIndex) ==
    [ch \in Channels |->
        PySetSlice(bufferComplete[ch], nextSample, nextSample + noOfSamples,
                   PySlice(bm[ch], startIndex, startIndex + noOfSamples))]

\* Faulty variant: the cursor is advanced once per channel
CallbackAdvancePerChannel(noOfSamples) ==
    nextSample + noOfSamples * Len(selected_channels)

\* line 468
CallbackAdvance(noOfSamples) == nextSample + noOfSamples

\* Faulty variant: a callback that carries the overflow signal returns early
CallbackReturnsOnOverflow(overflow) == overflow # 0

\* lines 464-465: an overflow is logged (logging.warning) and the call goes
\* on to the copy
CallbackStopsOnOverflow(overflow) == FALSE

\* streaming_callback (461-468), invoked by the driver inside get_data
streaming_callback(bm, noOfSamples, startIndex, overflow) ==
    IF \/ CallbackSkips
       \/ CallbackStopsOnOverflow(overflow)
       \/ CallbackRaises(bm, noOfSamples, startIndex)
    THEN UNCHANGED <<bufferComplete, nextSample, hist>>
    ELSE /\ bufferComplete' = CallbackCopy(bm, noOfSamples, startIndex)
         /\ nextSample' = CallbackAdvance(noOfSamples)
         /\ hist' = [hist EXCEPT !.copied =
                        [ch \in Channels |->
                            hist.copied[ch] \o
                            PySlice(CallbackCopy(bm, noOfSamples, startIndex)[ch],
                                    nextSample, nextSample + noOfSamples)]]

\* get_data (487): the driver delivers one callback; it may deliver several
\* (or none) before the call returns.
GetDataCallback ==
    /\ pcMain = "get_data"
    /\ hw.callbacks < MaxCallbacks
    /\ \E noOfSamples \in CallbackSizes, overflow \in {0, 1} :
        /\ bufferMax' = DriverFill(noOfSamples)
        /\ hw' = [next |-> StartIndex(noOfSamples) + noOfSamples,
                  produced |-> hw.produced + noOfSamples,
                  callbacks |-> hw.callbacks + 1,
                  overflow |-> overflow]
        /\ streaming_callback(DriverFill(noOfSamples), noOfSamples,
                              StartIndex(noOfSamples), overflow)
    /\ data_queue' = QueueAfterBufferWrite(data_queue, bufferComplete')
    /\ UNCHANGED <<exit_event, pcMain, data_to_save, device, status, workerVars>>

\* Faulty variant: hand off after every poll, whatever has accumulated
ThresholdAlways == nextSample >= 0

\* Faulty variant: hand off as soon as anything has accumulated
ThresholdAnySample == nextSample >= 1

\* line 645: if nextSample >= transfer_size
ThresholdReached == nextSample >= transfer_size

\* Faulty variant: the channels after the first are copied one sample short
SnapshotRagged ==
    [ch \in Channels |->
        PySlice(bufferComplete[ch], 0,
                IF ch = selected_channels[1] THEN nextSample ELSE nextSample - 1)]

\* Faulty variant: the copy has nextSample entries, whatever the buffer holds
SnapshotUnclipped ==
    [ch \in Channels |->
        [i \in 1..nextSample |->
            IF i <= Len(bufferComplete[ch]) THEN bufferComplete[ch][i] ELSE 0]]

\* line 647: {ch: bufferComplete[ch][:nextSample].copy() for ch in selected_channels}
Snapshot == [ch \in Channels |-> PySlice(bufferComplete[ch], 0, nextSample)]

\* the callback's arguments are gone when the driver call returns
PollOver(h) == [h EXCEPT !.overflow = 0]

\* get_data returns (488); lines 645-647
GetDataReturn ==
    /\ pcMain = "get_data"
    /\ IF ThresholdReached
       THEN /\ data_to_save' = Item(Snapshot)
            /\ pcMain' = "put"
       ELSE /\ UNCHANGED data_to_save
            /\ pcMain' = "duration"
    /\ hw' = PollOver(hw)
    /\ UNCHANGED <<exit_event, bufferMax, bufferComplete, nextSample, device, status,
                   workerVars, data_queue, hist>>

\* line 649: data_queue.put(data_to_save)
MainPut ==
    /\ pcMain = "put"
    /\ ~QueueFull(data_queue)
    /\ data_queue' = QueueAfterPut(data_queue, data_to_save)
    /\ hist' = [hist EXCEPT !.enqueued = Append(@, data_to_save.data)]
    /\ pcMain' = "reset"
    /\ UNCHANGED <<exit_event, bufferMax, bufferComplete, nextSample, data_to_save,
                   device, status, hw, workerVars>>

\* lines 653-654
ResetBuffer == [ch \in Channels |-> Zeros]

MainReset ==
    /\ pcMain = "reset"
    /\ bufferComplete' = ResetBuffer
    /\ nextSample' = 0
    /\ data_to_save' = None
    /\ pcMain' = "duration"
    /\ data_queue' = QueueAfterBufferWrite(data_queue, ResetBuffer)
    /\ UNCHANGED <<exit_event, bufferMax, device, status, hw, workerVars, hist>>

\* lines 657-661: the configured duration has elapsed (break), or it has not
\* or none is configured (sleep 1 ms, next iteration)
MainDuration ==
    /\ pcMain = "duration"
    /\ \E elapsed \in BOOLEAN :
        IF elapsed
        THEN /\ pcMain' = "finally"
             /\ hist' = [hist EXCEPT !.end = "duration"]
        ELSE /\ pcMain' = "while"
             /\ UNCHANGED hist
    /\ UNCHANGED <<exit_event, bufferMax, bufferComplete, nextSample, data_to_save,
                   device, status, hw, workerVars, data_queue>>

\* lines 663-667: an exception inside the loop body (the driver call, the
\* allocation of the copy or of the fresh buffers) ends the loop.
MainError ==
    /\ pcMain \in {"get_data", "reset"}
    /\ pcMain' = "finally"
    /\ hist' = [hist EXCEPT !.end = "error"]
    /\ hw' = PollOver(hw)
    /\ UNCHANGED <<exit_event, bufferMax, bufferComplete, nextSample, data_to_save,
                   device, status, workerVars, data_queue>>

(***************************************************************************)
(* save_data_worker (542-576), the save process                            *)
(***************************************************************************)
\* Faulty variant: the loop goes on while the queue holds items
WorkerLeavesWhenDrained == exit_event /\ data_queue = <<>>

\* Faulty variant: the loop runs until the sentinel arrives
WorkerIgnoresFlag == FALSE

\* line 546: while not exit_event.is_set()
WorkerLeavesLoop == exit_event

WorkerWhile ==
    /\ pcWorker = "while"
    /\ pcWorker' = IF WorkerLeavesLoop THEN "finished" ELSE "get"
    /\ UNCHANGED <<exit_event, mainVars, data_queue, channel_data, chan_i,
                   data_counter, saved, write_errors, queue_check, hist>>

\* Faulty variant: the sentinel is skipped like an empty get
WorkerSkipsSentinel(item) == IF item = None THEN "while" ELSE "save"

\* lines 548-550: get(timeout=0.1) returns the head of the queue; the
\* sentinel breaks the loop
WorkerAfterGet(item) == IF item = None THEN "finished" ELSE "save"

\* Faulty variant: get hands out the newest item first
QueueGetLifo(q) == [item |-> q[Len(q)], rest |-> SubSeq(q, 1, Len(q) - 1)]

\* Queue.get: the oldest item, and the queue without it
QueueGet(q) == [item |-> Head(q), rest |-> Tail(q)]

WorkerGet ==
    /\ pcWorker = "get"
    /\ data_queue # <<>>
    /\ data_queue' = QueueGet(data_queue).rest
    /\ pcWorker' = WorkerAfterGet(QueueGet(data_queue).item)
    /\ channel_data' = QueueGet(data_queue).item
    /\ chan_i' = IF QueueGet(data_queue).item = None THEN 0 ELSE 1
    /\ UNCHANGED <<exit_event, mainVars, data_counter, saved, write_errors, queue_check, hist>>

\* lines 571-572: queue.Empty after the timeout, continue
WorkerGetEmpty ==
    /\ pcWorker = "get"
    /\ data_queue = <<>>
    /\ pcWorker' = "while"
    /\ UNCHANGED <<exit_event, mainVars, data_queue, channel_data, chan_i,
                   data_counter, saved, write_errors, queue_check, hist>>

\* line 558-559: the file np.save writes for the channel at position i
SaveRecord(i) ==
    [channel |-> selected_channels[i],
     counter |-> data_counter,
     data |-> channel_data.data[selected_channels[i]]]

\* line 563, reached when the for loop over the channels has completed
CounterAfterBatch == data_counter + 1

\* lines 554-563: one iteration of the for loop; after the last channel the
\* batch index is incremented (563) and the loop returns to line 546.  The
\* periodic check_queue_size call (566-569) reads the queue size and logs.
WorkerSave ==
    /\ pcWorker = "save"
    /\ saved' = Append(saved, SaveRecord(chan_i))
    /\ IF chan_i < Len(selected_channels)
       THEN /\ chan_i' = chan_i + 1
            /\ UNCHANGED <<pcWorker, channel_data, data_counter>>
       ELSE /\ chan_i' = 0
            /\ channel_data' = None
            /\ data_counter' = CounterAfterBatch
            /\ pcWorker' = "while"
    /\ UNCHANGED <<exit_event, mainVars, data_queue, write_errors, queue_check, hist>>

\* lines 573-575: os.makedirs or np.save raised; the handler logs and the
\* while loop goes on with the next item
CounterAfterError == data_counter

\* Faulty variant: the handler cancels the run
FlagSetOnWriteError == TRUE

\* lines 573-575: the handler reads the flag (is_set) and logs; the flag
\* keeps its value
FlagAfterWriteError == exit_event

\* Faulty variant: the exception ends the worker
WorkerDiesOnError == "finished"

\* lines 573-575 handle the exception inside the while loop: the worker is
\* back at line 546
WorkerAfterError == "while"

WorkerSaveError ==
    /\ pcWorker = "save"
    /\ write_errors < MaxWriteErrors
    /\ write_errors' = write_errors + 1
    /\ chan_i' = 0
    /\ channel_data' = None
    /\ data_counter' = CounterAfterError
    /\ pcWorker' = WorkerAfterError
    /\ exit_event' = FlagAfterWriteError
    /\ UNCHANGED <<mainVars, data_queue, saved, queue_check, hist>>

(***************************************************************************)
(* __main__, the finally block (813-835)                                   *)
(***************************************************************************)
\* line 815: exit_event.set()
MainSetExit ==
    /\ pcMain = "finally"
    /\ exit_event' = EventAfterSet
    /\ hist' = FlagSetHist(hist)
    /\ pcMain' = "put_none"
    /\ UNCHANGED <<bufferMax, bufferComplete, nextSample, data_to_save, device, status, hw,
                   workerVars, data_queue>>

\* line 821: data_queue.put(None)
MainPutNone ==
    /\ pcMain = "put_none"
    /\ ~QueueFull(data_queue)
    /\ data_queue' = QueueAfterPut(data_queue, None)
    /\ pcMain' = "join"
    /\ UNCHANGED <<exit_event, bufferMax, bufferComplete, nextSample, data_to_save,
                   device, status, hw, workerVars, hist>>

WorkerAlive == pcWorker \notin {"finished", "terminated"}

\* line 824: save_process.join(timeout=5) returns when the process has
\* ended, or after 5 s while it is still running
MainJoin ==
    /\ pcMain = "join"
    /\ pcMain' = "is_alive"
    /\ UNCHANGED <<exit_event, bufferMax, bufferComplete, nextSample, data_to_save,
                   device, status, hw, workerVars, data_queue, hist>>

\* Faulty variant: the cleanup never force-terminates the worker
NeverTerminate == FALSE

\* line 827: if save_process.is_alive()
MustTerminate == WorkerAlive

\* check_queue_size (710-712): fill_ratio = current_size / max_size if
\* max_size > 0 else 0, kept as an exact fraction
fill_ratio(current_size, max_size) ==
    IF max_size > 0
    THEN [num |-> current_size, den |-> max_size]
    ELSE [num |-> 0, den |-> 1]

\* lines 827-830: terminate() and join() when still alive
MainIsAlive ==
    /\ pcMain = "is_alive"
    /\ IF MustTerminate
       THEN pcWorker' = "terminated"
       ELSE UNCHANGED pcWorker
    /\ pcMain' = "stop"
    /\ UNCHANGED <<exit_event, bufferMax, bufferComplete, nextSample, data_to_save,
                   device, status, hw, data_queue, channel_data, chan_i, data_counter, saved,
                   write_errors, queue_check, hist>>

\* line 833: ps.ps5000aStop(chandle)
MainStop ==
    /\ pcMain = "stop"
    /\ device' = "stopped"
    /\ pcMain' = "close"
    /\ UNCHANGED <<exit_event, bufferMax, bufferComplete, nextSample, data_to_save,
                   status, hw, workerVars, data_queue, hist>>

\* line 834: ps.ps5000aCloseUnit(chandle)
MainClose ==
    /\ pcMain = "close"
    /\ device' = "closed"
    /\ pcMain' = "done"
    /\ UNCHANGED <<exit_event, bufferMax, bufferComplete, nextSample, data_to_save,
                   status, hw, workerVars, data_queue, hist>>

MainLoopNext ==
    \/ MainWhile
    \/ GetDataCallback
    \/ GetDataReturn
    \/ MainPut
    \/ MainReset
    \/ MainDuration
    \/ MainError

CleanupNext ==
    \/ MainSetExit
    \/ MainPutNone
    \/ MainJoin
    \/ MainIsAlive
    \/ MainStop
    \/ MainClose

WorkerNext ==
    \/ WorkerWhile
    \/ WorkerGet
    \/ WorkerGetEmpty
    \/ WorkerSave
    \/ WorkerSaveError

Next ==
    \/ signal_handler
    \/ MainWhile
    \/ GetDataCallback
    \/ GetDataReturn
    \/ MainPut
    \/ MainReset
    \/ MainDuration
    \/ MainError
    \/ MainSetExit
    \/ MainPutNone
    \/ MainJoin
    \/ MainIsAlive
    \/ MainStop
    \/ MainClose
    \/ WorkerWhile
    \/ WorkerGet
    \/ WorkerGetEmpty
    \/ WorkerSave
    \/ WorkerSaveError

Spec == Init /\ [][Next]_vars

(***************************************************************************)
(* Setup, lines 795-805 of __main__: open_device, setup_channels,          *)
(* set_buffers, run_streaming, then the queue is created and the save      *)
(* process started.  The calls are outside any try: an exception raised by *)
(* assert_pico_ok ends the program.                                        *)
(***************************************************************************)
setupFrame ==
    <<exit_event, bufferMax, bufferComplete, nextSample, data_to_save, data_queue,
      channel_data, chan_i, data_counter, saved, write_errors, queue_check, hw>>

InitSetup ==
    /\ exit_event = FALSE
    /\ pcMain = "open_unit"
    /\ pcWorker = "not_started"
    /\ bufferMax = [ch \in Channels |-> Zeros]
    /\ bufferComplete = [ch \in Channels |-> Zeros]
    /\ nextSample = 0
    /\ data_to_save = None
    /\ data_queue = <<>>
    /\ channel_data = None
    /\ chan_i = 0
    /\ data_counter = 0
    /\ saved = <<>>
    /\ write_errors = 0
    /\ queue_check = NoCheck
    /\ device = "unopened"
    /\ status = <<>>
    /\ hw = [next |-> 0, produced |-> 0, callbacks |-> 0, overflow |-> 0]
    /\ hist = [open_calls |-> 0,
               power_changes |-> 0,
               enqueued |-> <<>>,
               copied |-> [ch \in Channels |-> <<>>],
               end |-> "none",
               interrupted |-> FALSE,
               at_cancel |-> <<>>]

\* line 138: status["openunit"] = ps.ps5000aOpenUnit(...); the driver hands
\* out a handle unless it found no unit
OpenUnit ==
    /\ pcMain = "open_unit"
    /\ \E s \in PicoStatuses :
        /\ status' = StatusSet(status, "openunit", s)
        /\ device' = IF s \in {PICO_OK} \cup PowerStatuses THEN "open" ELSE device
    /\ hist' = [hist EXCEPT !.open_calls = @ + 1]
    /\ pcMain' = "assert_openunit"
    /\ UNCHANGED <<pcWorker, setupFrame>>

\* lines 140-149: where open_device goes after the call of line 138
AfterOpenUnit(st) ==
    IF st = PICO_OK THEN "setup_channels"
    ELSE IF st \in PowerStatuses THEN "change_power"
    ELSE "setup_failed"

AssertOpenUnit ==
    /\ pcMain = "assert_openunit"
    /\ pcMain' = AfterOpenUnit(status["openunit"])
    /\ UNCHANGED <<pcWorker, device, status, hist, setupFrame>>

\* line 146: status["changePowerSource"] = ps.ps5000aChangePowerSource(...)
ChangePowerSource ==
    /\ pcMain = "change_power"
    /\ \E s \in PicoStatuses :
        status' = StatusSet(status, "changePowerSource", s)
    /\ hist' = [hist EXCEPT !.power_changes = @ + 1]
    /\ pcMain' = "assert_change"
    /\ UNCHANGED <<pcWorker, device, setupFrame>>

\* lines 147, 151: assert_pico_ok(status["changePowerSource"]), then the
\* function logs and returns
AfterChangePowerSource(st) ==
    IF st = PICO_OK THEN "setup_channels" ELSE "setup_failed"

AssertChangePowerSource ==
    /\ pcMain = "assert_change"
    /\ pcMain' = AfterChangePowerSource(status["changePowerSource"])
    /\ UNCHANGED <<pcWorker, device, status, hist, setupFrame>>

\* the first element of keys (a sequence) that status does not hold yet
NextKey(prefix, keys) ==
    LET i == CHOOSE j \in 1..Len(keys) :
                /\ (prefix \o keys[j]) \notin DOMAIN status
                /\ \A k \in 1..(j - 1) : (prefix \o keys[k]) \in DOMAIN status
    IN [key |-> prefix \o keys[i], last |-> i = Len(keys)]

\* setup_channels, lines 262-271: one iteration of the loop over 'ABCD'
SetChannel ==
    /\ pcMain = "setup_channels"
    /\ \E s \in PicoStatuses :
        /\ status' = StatusSet(status, NextKey("setCh", AllChannels).key, s)
        /\ pcMain' = IF s # PICO_OK THEN "setup_failed"
                     ELSE IF NextKey("setCh", AllChannels).last THEN "set_buffers"
                     ELSE "setup_channels"
    /\ UNCHANGED <<pcWorker, device, hist, setupFrame>>

\* set_buffers, lines 332-341: one iteration of the loop over the selected
\* channels
SetDataBuffers ==
    /\ pcMain = "set_buffers"
    /\ \E s \in PicoStatuses :
        /\ status' = StatusSet(status, NextKey("setDataBuffers", selected_channels).key, s)
        /\ pcMain' = IF s # PICO_OK THEN "setup_failed"
                     ELSE IF NextKey("setDataBuffers", selected_channels).last
                     THEN "run_streaming"
                     ELSE "set_buffers"
    /\ UNCHANGED <<pcWorker, device, hist, setupFrame>>

\* run_streaming, lines 392-402; on success lines 800-805 create the queue
\* and start the save process, and main_loop is entered
RunStreaming ==
    /\ pcMain = "run_streaming"
    /\ \E s \in PicoStatuses :
        /\ status' = StatusSet(status, "runStreaming", s)
        /\ IF s = PICO_OK
           THEN /\ device' = "streaming"
                /\ pcWorker' = "while"
                /\ pcMain' = "while"
           ELSE /\ pcMain' = "setup_failed"
                /\ UNCHANGED <<device, pcWorker>>
    /\ UNCHANGED <<hist, setupFrame>>

NextSetup ==
    \/ OpenUnit
    \/ AssertOpenUnit
    \/ ChangePowerSource
    \/ AssertChangePowerSource
    \/ SetChannel
    \/ SetDataBuffers
    \/ RunStreaming

SpecSetup == InitSetup /\ [][NextSetup]_vars

(***************************************************************************)
(* check_queue_size (669-722), a function of the size and the capacity of  *)
(* the queue it is given.  Ratios are kept as exact fractions; for the     *)
(* sizes and capacities considered the float division and comparisons of   *)
(* the source agree with them.                                             *)
(***************************************************************************)
\* line 669: warning_threshold=0.5, critical_threshold=0.8
warning_threshold == [num |-> 5, den |-> 10]

critical_threshold == [num |-> 8, den |-> 10]

\* a >= b for fractions with positive denominators
FracGeq(a, b) == a.num * b.den >= b.num * a.den

\* Faulty variant: the critical alert needs the ratio to exceed the threshold
IsCriticalStrict(ratio) == ~FracGeq(critical_threshold, ratio)

\* line 715: if fill_ratio >= critical_threshold
IsCritical(ratio) == FracGeq(ratio, critical_threshold)

\* line 719: elif fill_ratio >= warning_threshold
IsWarning(ratio) == ~IsCritical(ratio) /\ FracGeq(ratio, warning_threshold)

\* lines 715-720: what is logged
LogLevel(ratio) ==
    IF IsCritical(ratio) THEN "critical"
    ELSE IF IsWarning(ratio) THEN "warning"
    ELSE "none"

\* the sizes and capacities of queues handed to check_queue_size: a bounded
\* queue holds at most its capacity, a capacity <= 0 means unbounded
CheckInputs ==
    {[current_size |-> n, max_size |-> m, level |-> "unchecked", fill_ratio |-> None] :
        n \in 0..MaxCapacity, m \in (0 - 1)..MaxCapacity}

InitCheck ==
    /\ exit_event = FALSE
    /\ pcMain = "while"
    /\ pcWorker = "save"
    /\ bufferMax = [ch \in Channels |-> Zeros]
    /\ bufferComplete = [ch \in Channels |-> Zeros]
    /\ nextSample = 0
    /\ data_to_save = None
    /\ data_queue = <<>>
    /\ channel_data = None
    /\ chan_i = 0
    /\ data_counter = 0
    /\ saved = <<>>
    /\ write_errors = 0
    /\ queue_check \in {c \in CheckInputs : c.max_size > 0 => c.current_size <= c.max_size}
    /\ device = "streaming"
    /\ status = [k \in SetupKeys |-> PICO_OK]
    /\ hw = [next |-> 0, produced |-> 0, callbacks |-> 0, overflow |-> 0]
    /\ hist = [open_calls |-> 1,
               power_changes |-> 0,
               enqueued |-> <<>>,
               copied |-> [ch \in Channels |-> <<>>],
               end |-> "none",
               interrupted |-> FALSE,
               at_cancel |-> <<>>]

\* lines 710-722: one call
check_queue_size ==
    /\ queue_check.level = "unchecked"
    /\ queue_check' =
        [queue_check EXCEPT
            !.fill_ratio = fill_ratio(queue_check.current_size, queue_check.max_size),
            !.level = LogLevel(fill_ratio(queue_check.current_size, queue_check.max_size))]
    /\ UNCHANGED <<exit_event, mainVars, data_queue, pcWorker, channel_data, chan_i,
                   data_counter, saved, write_errors, hist>>

NextCheck == check_queue_size

SpecCheck == InitCheck /\ [][NextCheck]_vars

(***************************************************************************)
(* Vocabulary of the properties                                            *)
(***************************************************************************)
LoopPcs == {"while", "get_data", "put", "reset", "duration"}

CleanupPcs == {"finally", "put_none", "join", "is_alive", "stop", "close"}

\* every channel of snapshot d has been written by a completed np.save
SnapWritten(d) ==
    \A ch \in Channels :
        \E i \in 1..Len(saved) : saved[i].channel = ch /\ saved[i].data = d[ch]

\* the write event saved[i] belongs to the k-th snapshot main_loop enqueued
EventOf(i, k) == saved[i].data = hist.enqueued[k][saved[i].channel]

(***************************************************************************)
(* C1.  After the flag is set the worker writes every Snapshot that was    *)
(* in the queue at that moment before it exits: when the worker has left   *)
(* its loop, every Snapshot that was queued when exit_event was first set  *)
(* has been written.  (Stated for runs without write errors.)              *)
(***************************************************************************)
C1_DrainsQueueAfterCancel ==
    (pcWorker = "finished" /\ write_errors = 0) =>
        \A i \in 1..Len(hist.at_cancel) :
            hist.at_cancel[i] # None => SnapWritten(hist.at_cancel[i].data)

(***************************************************************************)
(* C2.  On normal completion (the duration elapsed, no interrupt), when    *)
(* the worker has exited by itself, every Snapshot main_loop enqueued has  *)
(* been written.  (Stated for runs without write errors.)                  *)
(***************************************************************************)
C2_NormalCompletionFlushes ==
    (hist.end = "duration" /\ ~hist.interrupted /\ pcWorker = "finished"
        /\ write_errors = 0) =>
        \A k \in 1..Len(hist.enqueued) : SnapWritten(hist.enqueued[k])

(***************************************************************************)
(* C4.  Once the flag is set the scheduler loop is never blocked for good: *)
(* whenever the flag is set and main_loop has not returned, main_loop can  *)
(* take a step, or the worker is still running and can free a queue slot.  *)
(***************************************************************************)
C4_SchedulerNeverBlockedAfterCancel ==
    (exit_event /\ pcMain \in LoopPcs) => (ENABLED MainLoopNext \/ WorkerAlive)

(***************************************************************************)
(* C5.  The shutdown never hangs: whenever the main process is in its      *)
(* cleanup phase and the worker has stopped, the cleanup can take its next *)
(* step (so it gets past the sentinel and the join to stop and close).     *)
(***************************************************************************)
C5_CleanupNeverStuck ==
    (pcMain \in CleanupPcs /\ ~WorkerAlive) => ENABLED CleanupNext

(***************************************************************************)
(* C3.  FIFO persistence: write events follow the order in which           *)
(* main_loop enqueued the Snapshots they belong to, and of two written     *)
(* Snapshots (every channel saved) the one enqueued first has the          *)
(* strictly smaller batch index.                                           *)
(***************************************************************************)
C3_FifoPersistence ==
    \A a \in 1..Len(hist.enqueued) :
        \A i \in 1..Len(saved) :
            EventOf(i, a) =>
                \A b \in (a + 1)..Len(hist.enqueued) :
                    \A j \in 1..Len(saved) :
                        EventOf(j, b) =>
                            /\ i < j
                            /\ (SnapWritten(hist.enqueued[a]) /\ SnapWritten(hist.enqueued[b]))
                                    => saved[i].counter < saved[j].counter

\* two Snapshots enqueued in order have both been written completely
C3_Witness ==
    /\ Len(hist.enqueued) >= 2
    /\ SnapWritten(hist.enqueued[1])
    /\ SnapWritten(hist.enqueued[2])

(***************************************************************************)
(* C6.  Shutdown order: the flag is set before the sentinel is enqueued,   *)
(* the sentinel before the join, the worker is force-terminated only at    *)
(* the is_alive test after the join and only when it is still alive, and   *)
(* the device is stopped and closed only when the worker is no longer      *)
(* alive.                                                                  *)
(***************************************************************************)
HasSentinel(q) == \E i \in 1..Len(q) : q[i] = None

C6_ShutdownOrderState ==
    /\ pcMain \in {"put_none", "join", "is_alive", "stop", "close", "done"} => exit_event
    /\ HasSentinel(data_queue) => pcMain \in {"join", "is_alive", "stop", "close", "done"}
    /\ pcWorker = "terminated" => pcMain \in {"stop", "close", "done"}
    /\ pcMain \in {"stop", "close", "done"} => ~WorkerAlive
    /\ device # "streaming" => (~WorkerAlive /\ pcMain \in {"close", "done"})
    /\ device = "closed" => pcMain = "done"

C6_ShutdownOrder ==
    /\ []C6_ShutdownOrderState
    /\ [][(pcWorker' = "terminated" /\ pcWorker # "terminated")
            => (pcMain = "is_alive" /\ WorkerAlive)]_vars
    /\ [][HasSentinel(data_queue') /\ ~HasSentinel(data_queue)
            => (pcMain = "put_none" /\ pcMain' = "join" /\ exit_event)]_vars
    /\ [][pcMain' = "is_alive" /\ pcMain # "is_alive" => pcMain = "join"]_vars
    /\ [][device' # device
            => (~WorkerAlive /\ ((device = "streaming" /\ device' = "stopped")
                                 \/ (device = "stopped" /\ device' = "closed")))]_vars

\* the forced path was taken: the worker was terminated and the device closed
C6_Witness == pcMain = "done" /\ pcWorker = "terminated" /\ device = "closed"

(***************************************************************************)
(* C7.  A put on a queue at capacity neither completes nor drops the item: *)
(* while the queue is full the producer stays in its put with the same     *)
(* item, and a put completes only by appending that item to a queue that   *)
(* has room.                                                               *)
(***************************************************************************)
C7_PutBlocksWhenFull ==
    /\ [][(pcMain \in {"put", "put_none"} /\ Len(data_queue) >= maxsize)
            => (pcMain' = pcMain /\ data_to_save' = data_to_save
                /\ (data_queue' = data_queue \/ data_queue' = Tail(data_queue)))]_vars
    /\ [][(pcMain = "put" /\ pcMain' # "put")
            => (Len(data_queue) < maxsize
                /\ data_queue' = Append(data_queue, data_to_save))]_vars
    /\ [][(pcMain = "put_none" /\ pcMain' # "put_none")
            => (Len(data_queue) < maxsize /\ data_queue' = Append(data_queue, None))]_vars

\* main_loop is in its put while the queue holds maxsize unconsumed Snapshots
C7_Witness ==
    /\ pcMain = "put"
    /\ Len(data_queue) = maxsize
    /\ \A i \in 1..Len(data_queue) : data_queue[i] # None

(***************************************************************************)
(* C8.  The queue never holds more than maxsize items (Snapshots plus      *)
(* the sentinel), so the fill ratio size/capacity is within [0, 1].        *)
(***************************************************************************)
C8_FillRatioAtMostOne ==
    /\ qsize(data_queue) <= maxsize
    /\ 0 <= fill_ratio(qsize(data_queue), maxsize).num
    /\ fill_ratio(qsize(data_queue), maxsize).num <= fill_ratio(qsize(data_queue), maxsize).den

\* a full queue whose last item is the sentinel: the ratio is exactly 1
C8_Witness ==
    /\ qsize(data_queue) = maxsize
    /\ data_queue[Len(data_queue)] = None
    /\ fill_ratio(qsize(data_queue), maxsize).num = fill_ratio(qsize(data_queue), maxsize).den

(***************************************************************************)
(* C9.  Threshold hand-off: after a poll, the scheduler hands off iff      *)
(* nextSample >= transfer_size; what it enqueues is exactly one Snapshot   *)
(* whose length on every channel is the current nextSample; then it        *)
(* resets nextSample to 0 and the accumulation buffer to empty.            *)
(***************************************************************************)
C9_ThresholdHandOff ==
    /\ [][(pcMain = "get_data" /\ pcMain' \in {"put", "duration"}) =>
            IF nextSample >= transfer_size
            THEN /\ pcMain' = "put"
                 /\ data_to_save'.kind = "data"
                 /\ \A ch \in Channels : Len(data_to_save'.data[ch]) = nextSample
            ELSE /\ pcMain' = "duration"
                 /\ data_queue' = data_queue]_vars
    /\ [][hist.enqueued' # hist.enqueued =>
            /\ Len(hist.enqueued') = Len(hist.enqueued) + 1
            /\ data_queue' = Append(data_queue, Item(hist.enqueued'[Len(hist.enqueued')]))
            /\ \A ch \in Channels :
                    Len(hist.enqueued'[Len(hist.enqueued')][ch]) = nextSample]_vars
    /\ [][(pcMain = "reset" /\ pcMain' = "duration") =>
            (nextSample' = 0 /\ bufferComplete' = [ch \in Channels |-> Zeros])]_vars
    /\ [](pcMain = "duration" => nextSample < transfer_size)

\* The same hand-off statement for polls that leave nextSample within the
\* buffer: C9 fails only when the callbacks pushed nextSample past BUFFER_SIZE.
HandOffWithinCapacity ==
    /\ [][(nextSample <= BUFFER_SIZE /\ pcMain = "get_data"
            /\ pcMain' \in {"put", "duration"}) =>
            IF nextSample >= transfer_size
            THEN /\ pcMain' = "put"
                 /\ data_to_save'.kind = "data"
                 /\ \A ch \in Channels : Len(data_to_save'.data[ch]) = nextSample
            ELSE /\ pcMain' = "duration"
                 /\ data_queue' = data_queue]_vars
    /\ [][(nextSample <= BUFFER_SIZE /\ hist.enqueued' # hist.enqueued) =>
            /\ Len(hist.enqueued') = Len(hist.enqueued) + 1
            /\ data_queue' = Append(data_queue, Item(hist.enqueued'[Len(hist.enqueued')]))
            /\ \A ch \in Channels :
                    Len(hist.enqueued'[Len(hist.enqueued')][ch]) = nextSample]_vars

(***************************************************************************)
(* C10.  When the callbacks have delivered, in total, as many samples per  *)
(* channel as the accumulation buffer holds.                               *)
(***************************************************************************)
RECURSIVE ConcatSnaps(_, _)
ConcatSnaps(snaps, ch) ==
    IF snaps = <<>> THEN <<>> ELSE snaps[1][ch] \o ConcatSnaps(Tail(snaps), ch)

IsPrefix(s, t) == Len(s) <= Len(t) /\ SubSeq(t, 1, Len(s)) = s

\* C10 as stated: exactly floor(capacity / transfer_size) Snapshots of length
\* transfer_size and one partial remainder Snapshot have been enqueued once
\* the iteration that received the last sample has done its hand-off (with
\* the flag unset and every delivered sample stored by the callback).
C10_FloorPlusRemainder ==
    (hw.produced = BUFFER_SIZE /\ pcMain = "duration" /\ ~exit_event
        /\ \A ch \in Channels : Len(hist.copied[ch]) = BUFFER_SIZE) =>
        /\ Len(hist.enqueued) = (BUFFER_SIZE \div transfer_size) + 1
        /\ \A k \in 1..(BUFFER_SIZE \div transfer_size) :
                \A ch \in Channels : Len(hist.enqueued[k][ch]) = transfer_size

\* C10 amended: at most floor(capacity / transfer_size) Snapshots are
\* enqueued, each of length at least transfer_size, in arrival order (their
\* concatenation is a prefix of what the callbacks stored); no partial
\* remainder is enqueued: while the loop runs, what is not in a Snapshot is
\* still the filled prefix of the accumulation buffer.
C10_AtMostFloorSnapshots ==
    hw.produced = BUFFER_SIZE =>
        /\ Len(hist.enqueued) <= BUFFER_SIZE \div transfer_size
        /\ \A k \in 1..Len(hist.enqueued) :
                \A ch \in Channels : Len(hist.enqueued[k][ch]) >= transfer_size
        /\ \A ch \in Channels : IsPrefix(ConcatSnaps(hist.enqueued, ch), hist.copied[ch])
        /\ pcMain \in {"while", "get_data", "put", "duration"} =>
                \A ch \in Channels :
                    ConcatSnaps(hist.enqueued, ch) \o PySlice(bufferComplete[ch], 0, nextSample)
                        = hist.copied[ch]
        /\ pcMain = "duration" => nextSample < transfer_size

\* capacity reached by callbacks of sizes BUFFER_SIZE - 2 and 2 in two polls:
\* two Snapshots, of lengths BUFFER_SIZE - 2 and 2
C10_Witness ==
    /\ hw.produced = BUFFER_SIZE
    /\ pcMain = "duration"
    /\ Len(hist.enqueued) = 2
    /\ Len(hist.enqueued[1]["A"]) = BUFFER_SIZE - 2

(***************************************************************************)
(* C11.  In every reachable state, whatever callbacks and polls have       *)
(* happened (several callbacks within one poll included), the write cursor *)
(* is within the accumulation buffer: 0 <= nextSample <= BUFFER_SIZE.      *)
(***************************************************************************)
C11_CursorWithinCapacity == 0 <= nextSample /\ nextSample <= BUFFER_SIZE

(***************************************************************************)
(* C12.  No Snapshot ever placed on the queue has, for any channel, more   *)
(* samples than that channel's hardware buffer (bufferMax) holds.          *)
(***************************************************************************)
C12_SnapshotWithinCapacity ==
    /\ \A k \in 1..Len(hist.enqueued) :
            \A ch \in Channels : Len(hist.enqueued[k][ch]) <= Len(bufferMax[ch])
    /\ \A i \in 1..Len(data_queue) :
            data_queue[i] # None =>
                \A ch \in Channels : Len(data_queue[i].data[ch]) <= Len(bufferMax[ch])

\* a Snapshot was put while the cursor was past the end of the buffer: it
\* has exactly BUFFER_SIZE samples
C12_Witness ==
    /\ pcMain = "reset"
    /\ nextSample > BUFFER_SIZE
    /\ hist.enqueued # <<>>
    /\ Len(hist.enqueued[Len(hist.enqueued)]["A"]) = BUFFER_SIZE
    /\ data_queue # <<>>

(***************************************************************************)
(* Callback steps.  A step of the model is one streaming_callback call     *)
(* exactly when the driver's callback count changes; the call's arguments  *)
(* are read off the driver state.                                          *)
(***************************************************************************)
IsCallbackStep == hw'.callbacks # hw.callbacks

\* noOfSamples of the call
CountOf == hw'.produced - hw.produced

\* startIndex of the call
OffsetOf == hw'.next - CountOf

(***************************************************************************)
(* C13.  With the flag unset, one callback(count, offset) stores, for      *)
(* every channel, the count samples at offset of the hardware buffer at    *)
(* positions nextSample .. nextSample+count-1 of the accumulation buffer,  *)
(* advances nextSample by count (once, not once per channel), and leaves   *)
(* the positions below the old nextSample unchanged.                       *)
(***************************************************************************)
C13_CallbackCopiesAndAdvances ==
    [][(IsCallbackStep /\ ~exit_event) =>
        /\ nextSample' = nextSample + CountOf
        /\ \A ch \in Channels :
            /\ PySlice(bufferComplete'[ch], nextSample, nextSample + CountOf)
                    = PySlice(bufferMax'[ch], OffsetOf, OffsetOf + CountOf)
            /\ PySlice(bufferComplete'[ch], 0, nextSample)
                    = PySlice(bufferComplete[ch], 0, nextSample)]_vars

\* The same statement for the calls whose samples fit into the rest of the
\* accumulation buffer: C13 fails only for calls that do not fit.
CopiesAndAdvancesWhenItFits ==
    [][(IsCallbackStep /\ ~exit_event /\ nextSample + CountOf <= BUFFER_SIZE) =>
        /\ nextSample' = nextSample + CountOf
        /\ \A ch \in Channels :
            /\ PySlice(bufferComplete'[ch], nextSample, nextSample + CountOf)
                    = PySlice(bufferMax'[ch], OffsetOf, OffsetOf + CountOf)
            /\ Len(PySlice(bufferComplete'[ch], nextSample, nextSample + CountOf)) = CountOf
            /\ PySlice(bufferComplete'[ch], 0, nextSample)
                    = PySlice(bufferComplete[ch], 0, nextSample)]_vars

(***************************************************************************)
(* C14.  A callback invoked while the flag is set leaves nextSample and    *)
(* every channel's accumulation buffer unchanged (no copy, for no          *)
(* channel).                                                               *)
(***************************************************************************)
C14_CancelledCallbackIsNoOp ==
    [][(IsCallbackStep /\ exit_event) =>
        (nextSample' = nextSample /\ bufferComplete' = bufferComplete)]_vars

\* the first callback of the run, of one sample, was invoked with the flag
\* set: the driver has produced the sample and nothing was stored
C14_Witness ==
    /\ exit_event
    /\ pcMain = "get_data"
    /\ hw.callbacks = 1
    /\ hw.produced = 1
    /\ nextSample = 0
    /\ bufferMax["A"][1] = HwSample("A", 1)
    /\ bufferComplete["A"][1] = 0

(***************************************************************************)
(* C15.  A callback that carries the overflow signal does not stop the     *)
(* pipeline: it neither sets the flag nor moves main_loop out of its poll, *)
(* and its effect on nextSample and on the accumulation buffer is the      *)
(* effect of the same call without overflow; with the flag unset and room  *)
(* in the buffer it stores its samples and advances nextSample by count.   *)
(***************************************************************************)
C15_OverflowDoesNotStop ==
    [][(IsCallbackStep /\ hw'.overflow # 0) =>
        /\ exit_event' = exit_event
        /\ pcMain' = pcMain
        /\ hist'.end = hist.end
        /\ streaming_callback(bufferMax', CountOf, OffsetOf, 0)
        /\ (~exit_event /\ nextSample + CountOf <= BUFFER_SIZE) =>
            /\ nextSample' = nextSample + CountOf
            /\ \A ch \in Channels :
                PySlice(bufferComplete'[ch], nextSample, nextSample + CountOf)
                    = PySlice(bufferMax'[ch], OffsetOf, OffsetOf + CountOf)]_vars

\* a callback with overflow has stored its two samples, main_loop is still
\* polling and the flag is unset
C15_Witness ==
    /\ hw.overflow # 0
    /\ hw.callbacks = 1
    /\ ~exit_event
    /\ pcMain = "get_data"
    /\ nextSample = 2
    /\ bufferComplete["A"][2] = HwSample("A", 2)

(***************************************************************************)
(* C16.  When the duration has elapsed and nextSample is below             *)
(* transfer_size, main_loop exits without enqueueing the samples that      *)
(* remain in the accumulation buffer: the break enqueues nothing, nothing  *)
(* but the sentinel is enqueued after the loop, and the remainder is still *)
(* in the buffer, in no Snapshot.  A Snapshot is enqueued, in the final    *)
(* iteration as in any other, only by the put that follows a poll which    *)
(* found nextSample >= transfer_size.                                      *)
(***************************************************************************)
C16_NoFlushOnDurationExit ==
    /\ [][(pcMain = "duration" /\ pcMain' = "finally") =>
            /\ data_queue' = data_queue \/ data_queue' = Tail(data_queue)
            /\ hist'.enqueued = hist.enqueued
            /\ nextSample' = nextSample
            /\ bufferComplete' = bufferComplete]_vars
    /\ [][hist'.enqueued # hist.enqueued =>
            (pcMain = "put" /\ nextSample >= transfer_size)]_vars
    /\ [][(pcMain = "get_data" /\ pcMain' = "put") => nextSample >= transfer_size]_vars
    /\ [][(Len(data_queue') > Len(data_queue) /\ pcMain \notin LoopPcs) =>
            data_queue' = Append(data_queue, None)]_vars
    /\ [](hist.end = "duration" =>
            /\ nextSample < transfer_size
            /\ \A ch \in Channels :
                ConcatSnaps(hist.enqueued, ch) \o PySlice(bufferComplete[ch], 0, nextSample)
                    = hist.copied[ch])

\* the run ended on the duration after one Snapshot, with one stored sample
\* left in the accumulation buffer
C16_Witness ==
    /\ hist.end = "duration"
    /\ pcMain = "done"
    /\ nextSample = 1
    /\ Len(hist.enqueued) = 1
    /\ Len(hist.copied["A"]) = Len(hist.enqueued[1]["A"]) + 1

\* Snapshots the worker has taken off the queue so far
DequeuedSnapshots ==
    Len(hist.enqueued) - Cardinality({i \in 1..Len(data_queue) : data_queue[i] # None})

(***************************************************************************)
(* C17.  A failed write of one channel's file never causes the write of a  *)
(* sibling channel of the same Snapshot to be skipped: whenever the worker *)
(* is between Snapshots, every channel of every Snapshot it dequeued has   *)
(* either been written or has itself failed, so the files written are at   *)
(* least channels x Snapshots minus the number of failures.                *)
(***************************************************************************)
C17_FailureSparesSiblings ==
    pcWorker \in {"while", "get", "finished"} =>
        Len(saved) + write_errors >= Len(selected_channels) * DequeuedSnapshots

(***************************************************************************)
(* C18.  The batch index is shared by all channels of a Snapshot, it is    *)
(* incremented exactly once per Snapshot the worker dequeued, whether or   *)
(* not a write of that Snapshot failed (so between Snapshots it equals the *)
(* number of Snapshots dequeued), and it never decreases.                  *)
(***************************************************************************)
C18_BatchIndexPerSnapshot ==
    /\ [](pcWorker \in {"while", "get", "finished"} => data_counter = DequeuedSnapshots)
    /\ [][pcWorker = "save" /\ pcWorker' = "while" => data_counter' = data_counter + 1]_vars
    /\ [][data_counter' >= data_counter]_vars
    /\ [](\A i, j \in 1..Len(saved) :
            \A k \in 1..Len(hist.enqueued) :
                (EventOf(i, k) /\ EventOf(j, k)) => saved[i].counter = saved[j].counter)

\* The parts of C18 that do not depend on a write having failed: the index
\* is shared by the channels of a Snapshot, never decreases, and is
\* incremented once per Snapshot whose channels were all written.
BatchIndexWithoutFailures ==
    /\ [](pcWorker \in {"while", "get", "finished"} =>
            data_counter + write_errors = DequeuedSnapshots)
    /\ [][data_counter' >= data_counter]_vars
    /\ [](\A i, j \in 1..Len(saved) :
            \A k \in 1..Len(hist.enqueued) :
                (EventOf(i, k) /\ EventOf(j, k)) => saved[i].counter = saved[j].counter)

C20_FlagMonotone == [][exit_event => exit_event']_vars

\* the flag was set by the interrupt handler, then again by the cleanup,
\* and is still set when the run is over
C20_Witness ==
    /\ hist.interrupted
    /\ pcMain = "done"
    /\ exit_event

\* the Snapshots among the items of q, in order
RECURSIVE SnapshotsIn(_)
SnapshotsIn(q) ==
    IF q = <<>> THEN <<>>
    ELSE IF q[1].kind = "data" THEN <<q[1].data>> \o SnapshotsIn(Tail(q))
    ELSE SnapshotsIn(Tail(q))

(***************************************************************************)
(* C21.  A Snapshot does not alias the accumulation buffer: a reset of the *)
(* buffer and a callback's copy leave every item in the queue, the item    *)
(* the worker is writing and the files written unchanged; at every moment  *)
(* the Snapshots in the queue are, with the contents they had when they    *)
(* were put, the last ones main_loop enqueued, and the Snapshot being      *)
(* written is the one enqueued just before them.                           *)
(***************************************************************************)
C21_SnapshotNeverAliased ==
    /\ [][(IsCallbackStep \/ (pcMain = "reset" /\ pcMain' # "reset")) =>
            (data_queue' = data_queue /\ channel_data' = channel_data /\ saved' = saved)]_vars
    /\ [](/\ DequeuedSnapshots >= 0
          /\ SnapshotsIn(data_queue)
                = SubSeq(hist.enqueued, DequeuedSnapshots + 1, Len(hist.enqueued))
          /\ pcWorker = "save" => channel_data.data = hist.enqueued[DequeuedSnapshots])

\* a Snapshot is in the queue, another is being written, and since they
\* were put the buffer has been reset and a callback has stored new samples
C21_Witness ==
    /\ pcWorker = "save"
    /\ data_queue # <<>>
    /\ data_queue[1].kind = "data"
    /\ pcMain = "get_data"
    /\ nextSample > 0
    /\ bufferComplete["A"][1] # data_queue[1].data["A"][1]
    /\ bufferComplete["A"][1] # channel_data.data["A"][1]

(***************************************************************************)
(* C22.  An error in main_loop ends the loop for good (no retry), the      *)
(* error enqueues nothing, and every end of the loop (duration, error,     *)
(* cancellation) is followed by the shutdown: the cleanup sets the flag    *)
(* and then enqueues the sentinel, so its put of the sentinel is never     *)
(* left waiting on a queue that nobody empties.                            *)
(***************************************************************************)
C22_LoopEndTriggersShutdown ==
    /\ [][pcMain \notin LoopPcs => pcMain' \notin LoopPcs]_vars
    /\ [][(hist'.end = "error" /\ hist.end # "error") =>
            (pcMain' = "finally" /\ hist'.enqueued = hist.enqueued
                /\ (data_queue' = data_queue \/ data_queue' = Tail(data_queue)))]_vars
    /\ [][pcMain \notin LoopPcs => hist'.enqueued = hist.enqueued]_vars
    /\ [][(pcMain = "finally" /\ pcMain' # "finally") =>
            (exit_event' /\ pcMain' = "put_none")]_vars
    /\ [][(pcMain = "put_none" /\ pcMain' # "put_none") =>
            (exit_event /\ data_queue' = Append(data_queue, None))]_vars
    /\ [](pcMain = "put_none" => (Len(data_queue) < maxsize \/ WorkerAlive))

\* The parts of C22 up to the sentinel: the loop is not re-entered, the
\* error enqueues nothing, and the flag is set right after the loop.
FailStopAndFlagSet ==
    /\ [][pcMain \notin LoopPcs => pcMain' \notin LoopPcs]_vars
    /\ [][(hist'.end = "error" /\ hist.end # "error") =>
            (pcMain' = "finally" /\ hist'.enqueued = hist.enqueued
                /\ (data_queue' = data_queue \/ data_queue' = Tail(data_queue)))]_vars
    /\ [][pcMain \notin LoopPcs => hist'.enqueued = hist.enqueued]_vars
    /\ [][(pcMain = "finally" /\ pcMain' # "finally") =>
            (exit_event' /\ pcMain' = "put_none")]_vars
    /\ [](pcMain \in {"put_none", "join", "is_alive", "stop", "close", "done"} => exit_event)

(***************************************************************************)
(* C23.  Fault isolation: a failed write in the worker leaves the flag and *)
(* every variable of the main process unchanged (it neither cancels the    *)
(* run nor ends main_loop).  The two loops share only the queue and the    *)
(* flag: a step of the worker changes, besides its own variables, nothing  *)
(* but the queue, and a step of main_loop changes no variable of the       *)
(* worker.                                                                 *)
(***************************************************************************)
C23_FaultIsolation ==
    /\ [][write_errors' # write_errors =>
            (exit_event' = exit_event /\ mainVars' = mainVars /\ data_queue' = data_queue)]_vars
    /\ [][(workerVars' # workerVars /\ pcWorker' # "terminated") =>
            (exit_event' = exit_event /\ mainVars' = mainVars)]_vars
    /\ [][(pcMain \in LoopPcs /\ mainVars' # mainVars) => workerVars' = workerVars]_vars

\* after a failed write the flag is unset and main_loop has just put its
\* second Snapshot
C23_Witness ==
    /\ write_errors >= 1
    /\ ~exit_event
    /\ pcMain = "reset"
    /\ Len(hist.enqueued) = 2
    /\ Len(data_queue) = 1
    /\ pcWorker \in {"while", "get"}

\* positions of the main process after open_device has returned
OpenedPcs == {"setup_channels", "set_buffers", "run_streaming", "while"}

(***************************************************************************)
(* C24.  When ps5000aOpenUnit returned a power-source status (282 or 286)  *)
(* and open_device has returned, the power source has been changed once    *)
(* and the open has been retried exactly once (two calls of                *)
(* ps5000aOpenUnit in all).  After any other non-OK status of the open, or *)
(* a non-OK status of the power-source change, setup is aborted: no later  *)
(* setup step runs and acquisition never starts.                           *)
(***************************************************************************)
C24_PowerSourceRetriedOnce ==
    /\ (pcMain \in OpenedPcs /\ hist.power_changes > 0) =>
            (hist.power_changes = 1 /\ hist.open_calls = 2)
    /\ (pcMain \in OpenedPcs /\ hist.power_changes = 0) => hist.open_calls = 1
    /\ ("openunit" \in DOMAIN status /\ status["openunit"] \notin {PICO_OK} \cup PowerStatuses
            /\ pcMain # "assert_openunit") => pcMain = "setup_failed"
    /\ ("changePowerSource" \in DOMAIN status /\ status["changePowerSource"] # PICO_OK
            /\ pcMain # "assert_change") => pcMain = "setup_failed"
    /\ pcMain = "setup_failed" => (device # "streaming" /\ pcWorker = "not_started")

\* What open_device does: ps5000aOpenUnit is called once, whatever it
\* returns; on 282 or 286 the power source is changed once and, when that
\* call returned PICO_OK, open_device returns without a second open.
OpenedWithoutRetry ==
    /\ (pcMain \in OpenedPcs /\ hist.power_changes > 0) =>
            (hist.power_changes = 1 /\ hist.open_calls = 1
                /\ status["openunit"] \in PowerStatuses
                /\ status["changePowerSource"] = PICO_OK)
    /\ (pcMain \in OpenedPcs /\ hist.power_changes = 0) =>
            (hist.open_calls = 1 /\ status["openunit"] = PICO_OK)
    /\ ("openunit" \in DOMAIN status /\ status["openunit"] \notin {PICO_OK} \cup PowerStatuses
            /\ pcMain # "assert_openunit") => pcMain = "setup_failed"
    /\ ("changePowerSource" \in DOMAIN status /\ status["changePowerSource"] # PICO_OK
            /\ pcMain # "assert_change") => pcMain = "setup_failed"
    /\ pcMain = "setup_failed" => (device # "streaming" /\ pcWorker = "not_started")

(***************************************************************************)
(* The save process is scheduled by the operating system and each of its   *)
(* steps ends by itself (get has a timeout, np.save returns or raises):    *)
(* whenever it can take a step it eventually takes one.                    *)
(***************************************************************************)
SpecFair == Spec /\ WF_vars(WorkerNext)

\* worker steps still ahead, at most, before the worker tests the flag and
\* leaves: the rest of the batch being written, or one get and one batch
StepsToLeave ==
    CASE pcWorker = "while" -> 1
      [] pcWorker = "save" -> 2 + Len(selected_channels) - chan_i
      [] pcWorker = "get" -> 2 + Len(selected_channels)
      [] OTHER -> 0

(***************************************************************************)
(* C25.  After the flag is set the worker leaves its loop, whether or not  *)
(* the sentinel arrives, after at most the write of the batch in progress  *)
(* plus one get: it is never blocked (an empty queue ends the get after    *)
(* the timeout), every step it takes with the flag set lowers the number   *)
(* of steps that can still separate it from leaving, and at the loop test  *)
(* it leaves.                                                              *)
(***************************************************************************)
C25_WorkerLeavesAfterCancel ==
    /\ [](WorkerAlive => ENABLED WorkerNext)
    /\ [][(exit_event /\ workerVars' # workerVars /\ pcWorker' # "terminated") =>
            StepsToLeave' < StepsToLeave]_vars
    /\ [][(exit_event /\ pcWorker = "while" /\ pcWorker' # "while") =>
            pcWorker' \in {"finished", "terminated"}]_vars

\* The same as a liveness property of the fair specification
WorkerEventuallyLeaves == exit_event ~> ~WorkerAlive

\* the worker has left its loop on the flag: no sentinel was ever put
C25_Witness ==
    /\ exit_event
    /\ pcWorker = "finished"
    /\ pcMain \in {"put", "put_none"}
    /\ data_counter >= 1
    /\ data_queue # <<>>
    /\ ~HasSentinel(data_queue)

(***************************************************************************)
(* C26.  When the worker dequeues the sentinel it leaves its loop at       *)
(* once, writes no file for it and does not increment the batch index;     *)
(* having left, it dequeues nothing and writes nothing any more.           *)
(***************************************************************************)
C26_SentinelEndsWorker ==
    /\ [][(pcWorker = "get" /\ data_queue # <<>> /\ Head(data_queue) = None
            /\ data_queue' = Tail(data_queue)) =>
            (pcWorker' = "finished" /\ saved' = saved /\ data_counter' = data_counter)]_vars
    /\ [][pcWorker = "finished" =>
            /\ pcWorker' = "finished"
            /\ saved' = saved
            /\ data_counter' = data_counter
            /\ (data_queue' = data_queue \/ Len(data_queue') = Len(data_queue) + 1)]_vars

\* the sentinel was put and is no longer in the queue: the worker took it
\* and has left its loop, after writing one batch
C26_Witness ==
    /\ pcMain \in {"join", "is_alive", "stop", "close", "done"}
    /\ ~HasSentinel(data_queue)
    /\ pcWorker = "finished"
    /\ data_counter = 1
    /\ Len(saved) = Len(selected_channels)

(***************************************************************************)
(* C27.  check_queue_size logs exactly one of: a critical alert when       *)
(* size/capacity >= 0.8, a warning when 0.5 <= size/capacity < 0.8,        *)
(* nothing when size/capacity < 0.5; it returns size/capacity, and 0 when  *)
(* the capacity is not positive (and then logs nothing); it leaves the     *)
(* queue, its size and its capacity as they were.                          *)
(***************************************************************************)
C27_FillRatioClassification ==
    /\ [](queue_check.level # "unchecked" =>
            /\ queue_check.level \in {"critical", "warning", "none"}
            /\ queue_check.max_size > 0 =>
                /\ queue_check.level = "critical"
                        <=> 10 * queue_check.current_size >= 8 * queue_check.max_size
                /\ queue_check.level = "warning"
                        <=> (10 * queue_check.current_size >= 5 * queue_check.max_size
                             /\ 10 * queue_check.current_size < 8 * queue_check.max_size)
                /\ queue_check.level = "none"
                        <=> 10 * queue_check.current_size < 5 * queue_check.max_size
                /\ queue_check.fill_ratio.num * queue_check.max_size
                        = queue_check.current_size * queue_check.fill_ratio.den
                /\ queue_check.fill_ratio.den > 0
            /\ queue_check.max_size <= 0 =>
                (queue_check.fill_ratio.num = 0 /\ queue_check.level = "none"))
    /\ [][queue_check' # queue_check =>
            /\ data_queue' = data_queue
            /\ queue_check'.current_size = queue_check.current_size
            /\ queue_check'.max_size = queue_check.max_size]_vars

\* a queue holding 4 of 5 items: the ratio is exactly the critical threshold
C27_Witness ==
    /\ queue_check.current_size = 4
    /\ queue_check.max_size = 5
    /\ queue_check.level = "critical"

(***************************************************************************)
(* C28.  Every Snapshot main_loop has enqueued holds exactly the selected  *)
(* channels, has the same length for every channel, and that length is at  *)
(* least transfer_size (so never 0).                                       *)
(***************************************************************************)
C28_SnapshotShape ==
    \A k \in 1..Len(hist.enqueued) :
        /\ DOMAIN hist.enqueued[k] = Channels
        /\ \A ch \in Channels :
            /\ Len(hist.enqueued[k][ch]) >= transfer_size
            /\ Len(hist.enqueued[k][ch]) > 0
            /\ Len(hist.enqueued[k][ch]) = Len(hist.enqueued[k][selected_channels[1]])

\* a Snapshot of exactly transfer_size samples and a longer one were enqueued
C28_Witness ==
    /\ Len(hist.enqueued) >= 2
    /\ Len(hist.enqueued[1]["B"]) = transfer_size
    /\ Len(hist.enqueued[2]["B"]) > transfer_size

\* the file data_<c>.npy of channel ch: what the last np.save under that
\* name wrote, nothing when there was none
FileOf(ch, c) ==
    LET writes == {i \in 1..Len(saved) : saved[i].channel = ch /\ saved[i].counter = c}
    IN IF writes = {} THEN <<>>
       ELSE saved[CHOOSE i \in writes : \A j \in writes : j <= i].data

\* the files of channel ch with batch indices c, c+1, ..., data_counter,
\* concatenated in that order
RECURSIVE ConcatFiles(_, _)
ConcatFiles(ch, c) ==
    IF c > data_counter THEN <<>> ELSE FileOf(ch, c) \o ConcatFiles(ch, c + 1)

(***************************************************************************)
(* C29.  In runs without write errors, the batches written for a channel,  *)
(* concatenated in batch-index order, are at every moment a prefix of the  *)
(* samples the callbacks stored for that channel, in the order they stored *)
(* them: nothing is duplicated, reordered or skipped between two batches.  *)
(* No callback runs between the copy of a Snapshot and the reset of the    *)
(* buffer, so no sample is stored there to be lost.                        *)
(***************************************************************************)
C29_WrittenIsPrefixOfCopied ==
    /\ [](write_errors = 0 =>
            \A ch \in Channels : IsPrefix(ConcatFiles(ch, 0), hist.copied[ch]))
    /\ [][(pcMain = "put" \/ pcMain = "reset") =>
            (hist'.copied = hist.copied /\ hw'.callbacks = hw.callbacks)]_vars

\* two batches are on disk for both channels and the callbacks have stored
\* more than what was written
C29_Witness ==
    /\ write_errors = 0
    /\ data_counter = 2
    /\ Len(saved) = 2 * Len(selected_channels)
    /\ Len(ConcatFiles("A", 0)) < Len(hist.copied["A"])
    /\ Len(FileOf("A", 1)) > 0

(***************************************************************************)
(* C30.  No two different Snapshots are written under the same batch       *)
(* index for the same channel: two np.save calls with the same channel and *)
(* the same index never happen, so no file is overwritten, also after a    *)
(* write error.                                                            *)
(***************************************************************************)
C30_NoFileOverwritten ==
    \A i, j \in 1..Len(saved) :
        (i < j /\ saved[i].channel = saved[j].channel) =>
            saved[i].counter # saved[j].counter

\* the sentinels among the items of a queue
NonesIn(q) == Cardinality({i \in 1..Len(q) : q[i] = None})

\* a step that puts a sentinel on the queue
IsSentinelPut == NonesIn(data_queue') > NonesIn(data_queue)

\* positions of the main process after data_queue.put(None) has returned
AfterSentinelPcs == {"join", "is_alive", "stop", "close", "done"}

(***************************************************************************)
(* C31.  The sentinel is enqueued exactly once per run: never before the   *)
(* loop has returned and the flag is set, never a second time, and every   *)
(* run whose loop has returned does enqueue it, so its put is never left   *)
(* waiting on a full queue after the worker has ended.  It is the last     *)
(* item ever enqueued: no Snapshot follows it in the queue and nothing is  *)
(* put after it.                                                           *)
(***************************************************************************)
C31_SentinelOnceAndLast ==
    /\ [][IsSentinelPut =>
            (/\ pcMain = "put_none" /\ pcMain' = "join"
             /\ exit_event /\ hist.end # "none"
             /\ data_queue' = Append(data_queue, None))]_vars
    /\ [][(pcMain \in AfterSentinelPcs) =>
            (/\ pcMain' \in AfterSentinelPcs
             /\ hist'.enqueued = hist.enqueued
             /\ (data_queue' = data_queue \/ data_queue' = Tail(data_queue)))]_vars
    /\ [](\A i \in 1..Len(data_queue) : data_queue[i] = None => i = Len(data_queue))
    /\ [](pcMain \notin AfterSentinelPcs => NonesIn(data_queue) = 0)
    /\ []((pcMain = "put_none" /\ ~WorkerAlive) => ~QueueFull(data_queue))

\* The parts of C31 about order and number: a sentinel is put only by the
\* cleanup, after the loop has returned and with the flag set, at most once,
\* and nothing is enqueued after it.
SentinelAtMostOnceAndLast ==
    /\ [][IsSentinelPut =>
            (/\ pcMain = "put_none" /\ pcMain' = "join"
             /\ exit_event /\ hist.end # "none"
             /\ data_queue' = Append(data_queue, None))]_vars
    /\ [][(pcMain \in AfterSentinelPcs) =>
            (/\ pcMain' \in AfterSentinelPcs
             /\ hist'.enqueued = hist.enqueued
             /\ (data_queue' = data_queue \/ data_queue' = Tail(data_queue)))]_vars
    /\ [](\A i \in 1..Len(data_queue) : data_queue[i] = None => i = Len(data_queue))
    /\ [](pcMain \notin AfterSentinelPcs => NonesIn(data_queue) = 0)

\* a step that takes an item off the queue
IsDequeue == Len(data_queue') < Len(data_queue)

(***************************************************************************)
(* C32.  After the flag is set the worker dequeues at most one further     *)
(* item: a dequeue with the flag set is made by a get that was started      *)
(* before the worker tested the flag (the worker is past line 546), it      *)
(* takes the head only, and with the flag set the worker never starts       *)
(* another get.  Of the items queued when the flag was set, all or all but  *)
(* the oldest stay in the queue, in every interleaving.                     *)
(***************************************************************************)
C32_AtMostOneDequeueAfterCancel ==
    /\ [][(exit_event /\ IsDequeue) =>
            (/\ pcWorker = "get" /\ pcWorker' # "get"
             /\ data_queue' = Tail(data_queue))]_vars
    /\ [][(exit_event /\ pcWorker # "get") => pcWorker' # "get"]_vars
    /\ [](exit_event =>
            \/ IsPrefix(hist.at_cancel, data_queue)
            \/ /\ hist.at_cancel # <<>>
               /\ IsPrefix(Tail(hist.at_cancel), data_queue)
               /\ pcWorker # "get")

\* the flag was set with two Snapshots queued and the worker inside get: the
\* worker has taken and written the older one and has ended, the newer one
\* is still queued
C32_Witness ==
    /\ exit_event
    /\ pcWorker = "finished"
    /\ Len(hist.at_cancel) = 2
    /\ data_queue # <<>>
    /\ Head(data_queue) = hist.at_cancel[2]
    /\ \E i \in 1..Len(saved) : saved[i].data = hist.at_cancel[1].data[saved[i].channel]

=============================================================================
